---- MODULE Spec2Model ----
(***************************************************************************)
(* Model of the ethics-analysis backend (src/app.py, src/gunicorn.conf.py).*)
(*                                                                         *)
(* Text is a sequence of tokens (a token is a piece of text that the code  *)
(* never looks inside), so that concatenation, formatting and repr() are   *)
(* computed and order matters.  A JSON value is a record tagged with its   *)
(* kind; a JSON object holds a function from its keys to JSON values.      *)
(*                                                                         *)
(* A request is handled in one step up to the blocking call of the         *)
(* external model client, and in a second step from the client's return    *)
(* (content or exception) to the response.                                 *)
(***************************************************************************)
EXTENDS Integers, Sequences, FiniteSets, TLC

\* ------------------------------------------------------------------ bounds
NumRequests == 2        \* requests handled in one run
MaxBlocks == 2          \* content blocks in one reply of the model client

\* gunicorn.conf.py: number of worker processes
workers == 4

Requests == 1..NumRequests
Workers == 1..workers

\* ------------------------------------------------------------- JSON values
JNull == [kind |-> "null"]
JString(s) == [kind |-> "string", val |-> s]
JObject(o) == [kind |-> "object", val |-> o]
JArray(a) == [kind |-> "array", val |-> a]

\* Python truthiness of a value read from the request body (`not x`)
Truthy(v) ==
    CASE v.kind = "null" -> FALSE
      [] v.kind = "string" -> v.val # <<>>
      [] v.kind = "array" -> v.val # <<>>
      [] v.kind = "object" -> DOMAIN v.val # {}
      [] OTHER -> TRUE

\* dict.get(key): the value, or None when the key is absent
Get(data, key) == IF key \in DOMAIN data.val THEN data.val[key] ELSE JNull

\* --------------------------------------------------------- text operations
RECURSIVE Join(_, _)
\* sep.join(list)
Join(sep, list) ==
    IF Len(list) = 0 THEN <<>>
    ELSE IF Len(list) = 1 THEN list[1]
    ELSE list[1] \o sep \o Join(sep, Tail(list))

RECURSIVE Format(_, _)
\* step.format(prompt=prompt): every replacement field {prompt} of the
\* template is replaced by the text of prompt; the inserted text is not
\* scanned again.
Format(step, prompt) ==
    IF step = <<>> THEN <<>>
    ELSE IF Head(step) = "{prompt}" THEN prompt \o Format(Tail(step), prompt)
    ELSE <<Head(step)>> \o Format(Tail(step), prompt)

\* repr() of a str without quote characters, and of a 2-tuple of such strs
ReprStr(s) == <<"'">> \o s \o <<"'">>
ReprTuple(t) == <<"(">> \o ReprStr(t[1]) \o <<", ">> \o ReprStr(t[2]) \o <<")">>

\* ------------------------------------------------------ process constants
SYSTEM_ROLE == <<"You are an expert in ethics conducting a comprehensive analysis of this situation. ...">>

STEPS == <<
    << <<"Identify the ethical problem or dilemma in the following situation: ", "{prompt}", ".">>, <<"<problem>">> >>,
    << <<"Apply relevant ethical codes, principles, or frameworks to the identified problem">>, <<"<principles>">> >>,
    << <<"Considering the principles, determine the nature and dimensions of the ethical dilemma, considering all stakeholders and potential consequences">>, <<"<dimensions>">> >>,
    << <<"Given the dimensions, generate potential courses of action to address the ethical dilemma">>, <<"<actions>">> >>,
    << <<"For each course of action, what are the potential consequences, and how do they align with the principles?">>, <<"<consequences>">> >>,
    << <<"Based on the analysis, what is the most ethically justifiable course of action, and why does it align with the relevant principles and minimize harm to stakeholders?">>, <<"<answer>">> >> >>

\* ------------------------------------------------------------------ inputs
Situations == { <<"a lie", " to a friend">> }

\* the raw body of a POST: not parseable as JSON, or a JSON value
Malformed == [kind |-> "malformed"]

ObjectsOver(keys, vals) == UNION { [D -> vals] : D \in SUBSET keys }

AnalysisBodies ==
    {Malformed, JNull, JArray(<<>>)}
    \cup { JObject(o) : o \in ObjectsOver({"situation"},
                 {JNull, JString(<<>>)} \cup { JString(s) : s \in Situations }) }

EvalKeys == {"prompt", "completion", "rubric"}
EvalBodies ==
    {Malformed, JNull, JArray(<<>>)}
    \cup { JObject(o) : o \in ObjectsOver(EvalKeys, {JString(<<"v">>)}) }
    \cup { JObject([prompt |-> JString(<<"v">>), completion |-> JString(<<>>), rubric |-> JString(<<"v">>)]),
           JObject([prompt |-> JString(<<"v">>), completion |-> JString(<<"v">>), rubric |-> JNull]) }

\* replies of the external model client
Texts == { <<"X">>, <<"Y", "Z">> }
Blocks == { [text |-> t] : t \in Texts }
Contents == UNION { [1..n -> Blocks] : n \in 0..MaxBlocks }
ExcMessages == { <<"Connection error.">>, <<"rate_limit_error">> }

\* ------------------------------------------------------------- file system
\* What lies at static_folder + '/' + path in the deployment.
Paths == {"", "main.js", "css", "nope", "../app.py"}
StaticFiles == {"index.html", "main.js"}
StaticDirs == {"css"}
OutsideFiles == {"../app.py"}

\* ------------------------------------------------------------------- state
VARIABLES
    steps,          \* per worker process: its module global STEPS
    system_role,    \* per worker process: its module global SYSTEM_ROLE
    pc,             \* per request: "idle", "calling" (blocked in the client call), "done"
    route,          \* per request: the view function that handles it
    input,          \* per request: the request body (POST) or path (GET)
    worker,         \* per request: the worker process handling it, 0 when none
    client_calls,   \* per request: the calls of CLIENT.messages.create it made
    outcome,        \* per request: what its client call did
    response        \* per request: the HTTP response

vars == <<steps, system_role, pc, route, input, worker, client_calls, outcome, response>>

NoInput == [kind |-> "none"]
NoOutcome == [kind |-> "none"]
NoResponse == [status |-> 0, body |-> JNull, file |-> ""]

Init ==
    /\ steps = [w \in Workers |-> STEPS]
    /\ system_role = [w \in Workers |-> SYSTEM_ROLE]
    /\ pc = [r \in Requests |-> "idle"]
    /\ route = [r \in Requests |-> "none"]
    /\ input = [r \in Requests |-> NoInput]
    /\ worker = [r \in Requests |-> 0]
    /\ client_calls = [r \in Requests |-> <<>>]
    /\ outcome = [r \in Requests |-> NoOutcome]
    /\ response = [r \in Requests |-> NoResponse]

\* ------------------------------------------------------- library behaviour
\* flask.jsonify(value), optionally paired with a status (default 200)
jsonify(value, status) == [status |-> status, body |-> value, file |-> ""]

\* request.json: parsing a body that is not JSON raises BadRequest, which is
\* an Exception; otherwise the parsed value (None for the JSON text null)
request_json(b) ==
    IF b.kind = "malformed"
    THEN [kind |-> "raise", msg |-> <<"400 Bad Request: Failed to decode JSON object">>]
    ELSE b

\* data.get on a value that is not a dict raises AttributeError
NoGetMessage(data) ==
    IF data.kind = "null" THEN <<"'NoneType' object has no attribute 'get'">>
    ELSE <<"'list' object has no attribute 'get'">>

\* os.path.exists(app.static_folder + '/' + path): true of files and of
\* directories, and of whatever a path with '..' reaches
os_path_exists(path) == path \in StaticFiles \cup StaticDirs \cup OutsideFiles

\* send_from_directory(app.static_folder, path): NotFound (404) when path
\* leaves the directory (safe_join) or does not name a regular file
NotFound == [status |-> 404, body |-> JNull, file |-> ""]
send_from_directory(path) ==
    IF path \in StaticFiles
    THEN [status |-> 200, body |-> JNull, file |-> path]
    ELSE NotFound

\* ------------------------------------------------------------- app.py code
build_grader_prompt(answer, rubric) ==
    << [role |-> "user",
        content |-> <<"You will be provided an answer ... <answer>">> \o answer
                    \o <<"</answer> ... <rubric>">> \o rubric
                    \o <<"</rubric> ... inside <correctness></correctness> tags.">>] >>

\* a get_completion that joins the blocks last to first
get_completion_reversed(messages) ==
    Join(<<>>, [i \in 1..Len(messages) |-> messages[Len(messages) + 1 - i].text])

get_completion(messages) ==
    Join(<<>>, [i \in 1..Len(messages) |-> messages[i].text])

\* grade_completion, the arguments of its client call
grade_completion_call(output, rubric) ==
    [model |-> "claude-3-opus-20240229", max_tokens |-> 256, temperature |-> "0.2",
     messages |-> build_grader_prompt(output, rubric)]

\* grade_completion, when the client returned content (a list of blocks)
grade_completion_result(completion) ==
    [response |-> JString(Join(<<>>, [i \in 1..Len(completion) |-> completion[i].text]))]

\* a grade_completion that raises without the cause's message
grade_completion_error_bare(e) == <<"Error during grading">>

\* grade_completion, the message of the RuntimeError it raises for exception e
grade_completion_error(e) == <<"Error during grading: ">> \o e

\* ethical_analysis: step_templates and combined_prompt.  zip(step_templates,
\* STEPS) pairs each formatted template with the whole (template, tag) tuple
\* of STEPS, and the f-string renders that tuple with repr().
step_templates(prompt, steps_w) ==
    [i \in 1..Len(steps_w) |-> Format(steps_w[i][1], prompt)]

combined_prompt(prompt, steps_w) ==
    Join(<<"\n">>, [i \in 1..Len(steps_w) |->
        step_templates(prompt, steps_w)[i] \o <<"\n">> \o ReprTuple(steps_w[i])])

\* ethical_analysis, the arguments of its client call
ethical_analysis_call(prompt, steps_w, system_role_w) ==
    [model |-> "claude-3-haiku-20240307", max_tokens |-> 2048, temperature |-> "0.2",
     system |-> system_role_w,
     messages |-> << [role |-> "user", content |-> combined_prompt(prompt, steps_w)] >>]

\* an ethical_analysis that formats the templates of STEPS in place
ethical_analysis_globals_inplace(prompt, steps_w) ==
    [i \in 1..Len(steps_w) |-> <<Format(steps_w[i][1], prompt), steps_w[i][2]>>]

\* ethical_analysis, what the module global STEPS is after composing the
\* prompt: the comprehensions build new lists and leave STEPS as it was
ethical_analysis_globals(prompt, steps_w) == steps_w

\* ethical_analysis, its two results
ethical_analysis_result(content) == [analysis |-> JString(get_completion(content))]
ethical_analysis_error(e) ==
    [error |-> JObject([message |-> JString(e), type |-> JString(<<"internal_server_error">>)])]

\* the error bodies of analyze_ethics
analyze_ethics_error(type, message) ==
    [type |-> JString(<<"error">>),
     error |-> JObject([type |-> JString(type), message |-> JString(message)])]

\* ------------------------------------------------------------------ actions
FreeWorkers == { w \in Workers : \A r \in Requests : worker[r] # w }

\* the handler returns resp without calling the client
Respond(r, resp) ==
    /\ pc' = [pc EXCEPT ![r] = "done"]
    /\ response' = [response EXCEPT ![r] = resp]
    /\ UNCHANGED <<worker, client_calls, outcome>>

\* the handler of r, running on worker w, calls CLIENT.messages.create
CallClient(r, w, call) ==
    /\ pc' = [pc EXCEPT ![r] = "calling"]
    /\ worker' = [worker EXCEPT ![r] = w]
    /\ client_calls' = [client_calls EXCEPT ![r] = Append(@, call)]
    /\ UNCHANGED <<outcome, response>>

\* the client call of r has ended with outcome o and the handler returns resp
Finish(r, o, resp) ==
    /\ pc' = [pc EXCEPT ![r] = "done"]
    /\ worker' = [worker EXCEPT ![r] = 0]
    /\ outcome' = [outcome EXCEPT ![r] = o]
    /\ response' = [response EXCEPT ![r] = resp]
    /\ UNCHANGED <<steps, system_role, route, input, client_calls>>

\* POST /analysis, up to the response or the client call
analyze_ethics(r) ==
    /\ pc[r] = "idle"
    /\ \E b \in AnalysisBodies :
        LET data == request_json(b) IN
        /\ route' = [route EXCEPT ![r] = "analysis"]
        /\ input' = [input EXCEPT ![r] = b]
        /\ UNCHANGED system_role
        /\ IF data.kind = "raise"
           THEN /\ Respond(r, jsonify(JObject(analyze_ethics_error(<<"internal_server_error">>, data.msg)), 500))
                /\ UNCHANGED steps
           ELSE IF data.kind # "object"
           THEN /\ Respond(r, jsonify(JObject(analyze_ethics_error(<<"internal_server_error">>, NoGetMessage(data))), 500))
                /\ UNCHANGED steps
           ELSE LET situation == Get(data, "situation") IN
                IF ~Truthy(situation)
                THEN /\ Respond(r, jsonify(JObject(analyze_ethics_error(<<"invalid_request_error">>, <<"Situation not provided.">>)), 400))
                     /\ UNCHANGED steps
                ELSE \E w \in FreeWorkers :
                     /\ CallClient(r, w, ethical_analysis_call(situation.val, steps[w], system_role[w]))
                     /\ steps' = [steps EXCEPT ![w] = ethical_analysis_globals(situation.val, steps[w])]

\* POST /analysis, the client call returns: ethical_analysis returns its
\* result and analyze_ethics answers jsonify(analysis_results)
ethical_analysis_returns(r) ==
    /\ pc[r] = "calling"
    /\ route[r] = "analysis"
    /\ \E content \in Contents :
        Finish(r, [kind |-> "content", content |-> content],
               jsonify(JObject(ethical_analysis_result(content)), 200))

\* an ethical_analysis that calls the client again when the call raises
ethical_analysis_raises_retry(r) ==
    /\ pc[r] = "calling"
    /\ route[r] = "analysis"
    /\ Len(client_calls[r]) < 3
    /\ \E e \in ExcMessages :
        /\ outcome' = [outcome EXCEPT ![r] = [kind |-> "raise", msg |-> e]]
        /\ client_calls' = [client_calls EXCEPT ![r] = Append(@, Head(@))]
        /\ UNCHANGED <<steps, system_role, pc, route, input, worker, response>>

\* POST /analysis, the client call raises: ethical_analysis returns its
\* error result and analyze_ethics answers jsonify(analysis_results)
ethical_analysis_raises(r) ==
    /\ pc[r] = "calling"
    /\ route[r] = "analysis"
    /\ \E e \in ExcMessages :
        Finish(r, [kind |-> "raise", msg |-> e],
               jsonify(JObject(ethical_analysis_error(e)), 200))

\* POST /eval, up to the response or the client call
evaluate_completion(r) ==
    /\ pc[r] = "idle"
    /\ \E b \in EvalBodies :
        LET data == request_json(b) IN
        /\ route' = [route EXCEPT ![r] = "eval"]
        /\ input' = [input EXCEPT ![r] = b]
        /\ UNCHANGED <<steps, system_role>>
        /\ IF data.kind = "raise"
           THEN Respond(r, jsonify(JObject([error |-> JString(data.msg)]), 500))
           ELSE IF data.kind # "object"
           THEN Respond(r, jsonify(JObject([error |-> JString(NoGetMessage(data))]), 500))
           ELSE LET prompt == Get(data, "prompt")
                    completion == Get(data, "completion")
                    rubric == Get(data, "rubric")
                IN  IF ~Truthy(prompt) \/ ~Truthy(completion) \/ ~Truthy(rubric)
                    THEN Respond(r, jsonify(JObject([error |-> JString(<<"Prompt, completion, or rubric not provided">>)]), 400))
                    ELSE \E w \in FreeWorkers :
                         CallClient(r, w, grade_completion_call(completion.val, rubric.val))

\* POST /eval, the client call returns
grade_completion_returns(r) ==
    /\ pc[r] = "calling"
    /\ route[r] = "eval"
    /\ \E content \in Contents :
        Finish(r, [kind |-> "content", content |-> content],
               jsonify(JObject(grade_completion_result(content)), 200))

\* POST /eval, the client call raises: grade_completion raises RuntimeError,
\* which evaluate_completion catches
grade_completion_raises(r) ==
    /\ pc[r] = "calling"
    /\ route[r] = "eval"
    /\ \E e \in ExcMessages :
        Finish(r, [kind |-> "raise", msg |-> e],
               jsonify(JObject([error |-> JString(grade_completion_error(e))]), 500))

\* GET /api/steps
get_steps(r) ==
    /\ pc[r] = "idle"
    /\ \E w \in FreeWorkers :
        /\ route' = [route EXCEPT ![r] = "steps"]
        /\ input' = [input EXCEPT ![r] = NoInput]
        /\ Respond(r, jsonify(JArray([i \in 1..Len(steps[w]) |->
                JArray(<< JString(<<"<prompt>">> \o steps[w][i][1] \o <<"</prompt>">>),
                          JString(steps[w][i][2]) >>)]), 200))
        /\ UNCHANGED <<steps, system_role>>

\* GET / and GET /<path>
serve(r) ==
    /\ pc[r] = "idle"
    /\ \E path \in Paths :
        /\ route' = [route EXCEPT ![r] = "serve"]
        /\ input' = [input EXCEPT ![r] = [kind |-> "path", val |-> path]]
        /\ IF path # "" /\ os_path_exists(path)
           THEN Respond(r, send_from_directory(path))
           ELSE Respond(r, send_from_directory("index.html"))
        /\ UNCHANGED <<steps, system_role>>

Next ==
    \E r \in Requests :
        \/ analyze_ethics(r)
        \/ ethical_analysis_returns(r)
        \/ ethical_analysis_raises(r)
        \/ evaluate_completion(r)
        \/ grade_completion_returns(r)
        \/ grade_completion_raises(r)
        \/ get_steps(r)
        \/ serve(r)

Spec == Init /\ [][Next]_vars

\* ------------------------------------------------------------------ claims
HasKey(v, k) == v.kind = "object" /\ k \in DOMAIN v.val
IsString(v, s) == v.kind = "string" /\ v.val = s
Done(r) == pc[r] = "done"
Raised(r) == outcome[r].kind = "raise"
Returned(r) == outcome[r].kind = "content"

\* sub occurs in s as a contiguous run
Contains(s, sub) ==
    \E i \in 1..(Len(s) - Len(sub) + 1) : SubSeq(s, i, i + Len(sub) - 1) = sub

\* the `error` member of a response body is an object with this type and message
ErrorObjectIs(body, type, message) ==
    /\ HasKey(body, "error")
    /\ HasKey(body.val.error, "type")
    /\ HasKey(body.val.error, "message")
    /\ IsString(body.val.error.val.type, type)
    /\ IsString(body.val.error.val.message, message)

\* C1: a POST /analysis whose client call raises is answered with status 500
\* and an error of type internal_server_error carrying the exception's message.
C1_AnalysisFailureIs500 ==
    \A r \in Requests :
        (route[r] = "analysis" /\ Raised(r)) =>
            /\ Done(r)
            /\ response[r].status = 500
            /\ ErrorObjectIs(response[r].body, <<"internal_server_error">>, outcome[r].msg)

\* the body of a POST /analysis has no usable `situation`
SituationMissing(b) ==
    \/ b.kind \in {"malformed", "null", "array"}
    \/ /\ b.kind = "object"
       /\ \/ "situation" \notin DOMAIN b.val
          \/ b.val["situation"] \in {JNull, JString(<<>>)}

\* C2: a POST /analysis with a missing or empty situation (also a null,
\* non-object or non-JSON body) is answered with status 400 and error type
\* invalid_request_error, and makes no client call.
C2_MissingSituationIs400 ==
    \A r \in Requests :
        (route[r] = "analysis" /\ SituationMissing(input[r])) =>
            /\ Done(r)
            /\ response[r].status = 400
            /\ HasKey(response[r].body, "error")
            /\ HasKey(response[r].body.val.error, "type")
            /\ IsString(response[r].body.val.error.val.type, <<"invalid_request_error">>)
            /\ client_calls[r] = <<>>

\* a response of POST /analysis or POST /eval that reports a failure
IsFailure(r) ==
    /\ route[r] \in {"analysis", "eval"}
    /\ Done(r)
    /\ \/ response[r].status \in {400, 500}
       \/ HasKey(response[r].body, "error")

\* C3: every failure response of POST /analysis and POST /eval has a
\* top-level `type` and an `error` object holding `type` and `message`.
C3_ErrorEnvelope ==
    \A r \in Requests :
        IsFailure(r) =>
            /\ HasKey(response[r].body, "type")
            /\ HasKey(response[r].body, "error")
            /\ HasKey(response[r].body.val.error, "type")
            /\ HasKey(response[r].body.val.error, "message")

\* the body of a POST /eval lacks one of prompt, completion, rubric
EvalFieldMissing(b) ==
    \/ b.kind \in {"null", "array"}
    \/ /\ b.kind = "object"
       /\ \E k \in EvalKeys : k \notin DOMAIN b.val

\* C4: a POST /eval that lacks any of prompt, completion, rubric (also a null
\* or non-object body) is answered with status 400 and makes no client call.
C4_MissingEvalFieldIs400 ==
    \A r \in Requests :
        (route[r] = "eval" /\ EvalFieldMissing(input[r])) =>
            /\ Done(r)
            /\ response[r].status = 400
            /\ client_calls[r] = <<>>

\* C5: a POST /eval whose client call raises completes with status 500 and
\* an `error` text that contains the exception's message.
C5_EvalFailureIs500 ==
    \A r \in Requests :
        (route[r] = "eval" /\ Raised(r)) =>
            /\ Done(r)
            /\ response[r].status = 500
            /\ HasKey(response[r].body, "error")
            /\ response[r].body.val.error.kind = "string"
            /\ Contains(response[r].body.val.error.val, outcome[r].msg)

C5_Witness ==
    \E r \in Requests :
        /\ route[r] = "eval" /\ Raised(r) /\ Done(r)
        /\ Len(client_calls[r]) = 1

RECURSIVE TotalLen(_)
TotalLen(content) ==
    IF content = <<>> THEN 0
    ELSE Len(Head(content).text) + TotalLen(Tail(content))

\* t is the texts of content one after the other: token j of block i is at
\* position (tokens of the blocks before i) + j of t, and t has no other token
IsConcatenation(t, content) ==
    /\ Len(t) = TotalLen(content)
    /\ \A i \in 1..Len(content) : \A j \in 1..Len(content[i].text) :
           t[TotalLen(SubSeq(content, 1, i - 1)) + j] = content[i].text[j]
    /\ (content = <<>> => t = <<>>)
    /\ (content = << [text |-> <<"X">>] >> => t = <<"X">>)

\* the member of a successful response that carries the text
TextKey(r) == IF route[r] = "analysis" THEN "analysis" ELSE "response"

\* C6: when the client call returns text segments, `analysis` (POST /analysis)
\* and `response` (POST /eval) are the segments concatenated in arrival order.
C6_TextIsConcatenation ==
    \A r \in Requests :
        (route[r] \in {"analysis", "eval"} /\ Returned(r)) =>
            /\ Done(r)
            /\ response[r].status = 200
            /\ HasKey(response[r].body, TextKey(r))
            /\ response[r].body.val[TextKey(r)].kind = "string"
            /\ IsConcatenation(response[r].body.val[TextKey(r)].val, outcome[r].content)

C6_Witness ==
    \E r1, r2 \in Requests :
        /\ route[r1] = "analysis" /\ route[r2] = "eval"
        /\ \A r \in {r1, r2} :
            /\ Done(r) /\ Returned(r)
            /\ Len(outcome[r].content) = 2
            /\ outcome[r].content[1] # outcome[r].content[2]

\* C7: a GET of a path that is not a static asset file (the empty path, a
\* directory, a path outside the static folder) is answered with the
\* fallback index document, never with 404.
C7_UnknownPathServesIndex ==
    \A r \in Requests :
        (route[r] = "serve" /\ input[r].val \notin StaticFiles) =>
            /\ response[r].status # 404
            /\ response[r].file = "index.html"

Tags == << <<"<problem>">>, <<"<principles>">>, <<"<dimensions>">>,
           <<"<actions>">>, <<"<consequences>">>, <<"<answer>">> >>

\* C8: the prompt sent by ethical_analysis is six segments in STEPS order,
\* segment i being template i formatted with the situation and then the tag
\* of step i alone; the situation occurs in the first segment.
C8_PromptSegments ==
    \A r \in Requests :
        (route[r] = "analysis" /\ client_calls[r] # <<>>) =>
            LET situation == input[r].val["situation"].val
                segment(i) == Format(STEPS[i][1], situation) \o <<"\n">> \o Tags[i]
            IN  /\ Len(STEPS) = 6
                /\ Contains(segment(1), situation)
                /\ client_calls[r][1].messages[1].content
                       = Join(<<"\n">>, [i \in 1..6 |-> segment(i)])

\* the body of a POST passes the validation of its handler
Validated(r) ==
    /\ input[r].kind = "object"
    /\ IF route[r] = "analysis"
       THEN ~SituationMissing(input[r])
       ELSE /\ route[r] = "eval"
            /\ \A k \in EvalKeys :
                  /\ k \in DOMAIN input[r].val
                  /\ input[r].val[k] \notin {JNull, JString(<<>>)}

\* C9: a request makes at most one client call, only after its validation
\* passed; once the call has failed the request is over, no other call was
\* made and the response has neither `analysis` nor `response`.
C9_AtMostOneCall ==
    \A r \in Requests :
        /\ Len(client_calls[r]) <= 1
        /\ (client_calls[r] # <<>> => Validated(r))
        /\ (Raised(r) =>
               /\ Done(r)
               /\ Len(client_calls[r]) = 1
               /\ ~HasKey(response[r].body, "analysis")
               /\ ~HasKey(response[r].body, "response"))

C9_Witness ==
    \E r1, r2 \in Requests :
        /\ route[r1] = "analysis" /\ route[r2] = "eval"
        /\ Raised(r1) /\ Raised(r2) /\ Done(r1) /\ Done(r2)

\* C10: STEPS and SYSTEM_ROLE keep their startup value in every worker, and
\* two answered requests with the same route, input and client outcome have
\* the same response, whatever was handled before or between.
C10_Isolation ==
    /\ \A w \in Workers : steps[w] = STEPS /\ system_role[w] = SYSTEM_ROLE
    /\ \A r1, r2 \in Requests :
          (/\ Done(r1) /\ Done(r2)
           /\ route[r1] = route[r2]
           /\ input[r1] = input[r2]
           /\ outcome[r1] = outcome[r2]) => response[r1] = response[r2]

\* one request is answered while another, with the same input, is still
\* blocked in its client call
C10_Witness ==
    \E r1, r2 \in Requests :
        /\ r1 # r2
        /\ Done(r1) /\ Returned(r1) /\ pc[r2] = "calling"
        /\ route[r1] = route[r2] /\ input[r1] = input[r2]

====
